---- MODULE Spec2Model ----
(***************************************************************************)
(* bleaktyped: typed access to GATT characteristics.                       *)
(*                                                                         *)
(* The model follows src/bleaktyped/marshall.py: the format table          *)
(* Table_2904_bytes_format, the override table Table_uuid_to_marshaller,   *)
(* the resolver BleakGATTMarshaller.get_marshaller (a coroutine which      *)
(* suspends once, at client.read_gatt_descriptor), and the two codecs      *)
(* BleakGATTMarshaller (passthrough) and BleakGATTPackMarshaller.          *)
(*                                                                         *)
(* Python values are tagged records.  A Python int is unbounded, so it is  *)
(* a sign and a little-endian base-256 magnitude: the 32- and 64-bit       *)
(* layouts are packed and unpacked digit by digit, at their full width.    *)
(* A Python float is a sign, an integer magnitude and a decimal exponent   *)
(* (the value mag * 10^dexp); the binary rounding of a double is not       *)
(* represented.  An exception is the value Fault(exc).                     *)
(***************************************************************************)
EXTENDS Integers, Sequences, FiniteSets, TLC

VARIABLES Table_uuid_to_marshaller, Table_2904_bytes_format, calls, hist

vars == <<Table_uuid_to_marshaller, Table_2904_bytes_format, calls, hist>>

\* ------------------------------------------------------------------------
\* Bounds of the model.
\* ------------------------------------------------------------------------

\* Number of get_marshaller coroutines that may be in flight together.
MaxCalls == 2

\* Longest byte string handed to a codec (the widest layout has 8 bytes).
MaxLen == 9

\* Longest chain of marshall/unmarshall calls on one marshaller.
MaxOps == 2

\* ------------------------------------------------------------------------
\* Python values.
\* ------------------------------------------------------------------------

\* A raised exception.
Fault(exc) == [t |-> "fault", kind |-> "Raised", exc |-> exc]

PyBytes(b) == [t |-> "bytes", b |-> b]

PyBool(v) == [t |-> "bool", v |-> v]

PyStr(s) == [t |-> "str", s |-> s]

Zeros(n) == [i \in 1..n |-> 0]

\* The magnitude without its most significant zero digits.
RECURSIVE Norm(_)
Norm(mag) ==
    IF mag = <<>> THEN <<>>
    ELSE IF mag[Len(mag)] = 0 THEN Norm(SubSeq(mag, 1, Len(mag) - 1))
    ELSE mag

PyInt(neg, mag) ==
    LET m == Norm(mag) IN [t |-> "int", neg |-> (neg /\ m # <<>>), mag |-> m]

\* mag * k + carry, for a small k.
RECURSIVE MulSmall(_, _, _)
MulSmall(mag, k, carry) ==
    IF mag = <<>> THEN (IF carry = 0 THEN <<>> ELSE <<carry>>)
    ELSE LET x == Head(mag) * k + carry
         IN  <<x % 256>> \o MulSmall(Tail(mag), k, x \div 256)

\* Long division of the digits mag[1..i] by a small k, with r the remainder
\* carried down from the digits above.
RECURSIVE DivSmall(_, _, _, _)
DivSmall(mag, k, i, r) ==
    IF i = 0 THEN [q |-> <<>>, r |-> r]
    ELSE LET cur  == r * 256 + mag[i]
             rest == DivSmall(mag, k, i - 1, cur % k)
         IN  [q |-> rest.q \o <<cur \div k>>, r |-> rest.r]

\* mag * 10^n.
RECURSIVE MulPow10(_, _)
MulPow10(mag, n) ==
    IF n = 0 THEN Norm(mag) ELSE MulPow10(MulSmall(mag, 10, 0), n - 1)

\* mag / 10^n, truncated.
RECURSIVE DivPow10(_, _)
DivPow10(mag, n) ==
    IF n = 0 THEN Norm(mag)
    ELSE DivPow10(Norm(DivSmall(mag, 10, Len(mag), 0).q), n - 1)

\* The float mag * 10^dexp in its one normal form: no factor 10 in mag.
RECURSIVE PyFloat(_, _, _)
PyFloat(neg, mag, dexp) ==
    LET m == Norm(mag)
        d == DivSmall(m, 10, Len(m), 0)
    IN  IF m = <<>> THEN [t |-> "float", fneg |-> FALSE, fmag |-> <<>>, dexp |-> 0]
        ELSE IF d.r = 0 THEN PyFloat(neg, d.q, dexp + 1)
        ELSE [t |-> "float", fneg |-> neg, fmag |-> m, dexp |-> dexp]

\* bool(x)
ToBool(x) ==
    CASE x.t = "bool"  -> x
      [] x.t = "int"   -> PyBool(x.mag # <<>>)
      [] x.t = "float" -> PyBool(x.fmag # <<>>)
      [] x.t = "bytes" -> PyBool(x.b # <<>>)
      [] x.t = "str"   -> PyBool(x.s # <<>>)

\* int(x) of a number: a float is truncated towards zero.
ToInt(x) ==
    CASE x.t = "int"   -> x
      [] x.t = "bool"  -> PyInt(FALSE, IF x.v THEN <<1>> ELSE <<>>)
      [] x.t = "float" ->
            IF x.dexp >= 0 THEN PyInt(x.fneg, MulPow10(x.fmag, x.dexp))
            ELSE PyInt(x.fneg, DivPow10(x.fmag, -x.dexp))

\* float(x) of a number.
ToFloat(x) ==
    CASE x.t = "float" -> x
      [] x.t = "int"   -> PyFloat(x.neg, x.mag, 0)
      [] x.t = "bool"  -> PyFloat(FALSE, IF x.v THEN <<1>> ELSE <<>>, 0)

\* ToBytes had it encoded a str, one byte a character, rather than
\* refused it.
ToBytesEncoding(x) ==
    CASE x.t = "bytes" -> x
      [] x.t = "str"   -> PyBytes(x.s)
      [] x.t = "float" -> Fault("TypeError")
      [] x.t = "bool"  -> PyBytes(Zeros(IF x.v THEN 1 ELSE 0))
      [] x.t = "int"   ->
            CASE x.neg           -> Fault("ValueError")
              [] x.mag = <<>>     -> PyBytes(<<>>)
              [] Len(x.mag) = 1   -> PyBytes(Zeros(x.mag[1]))

\* bytes(x): a bytes object is returned as it is, an int n (a bool is an
\* int) gives n zero bytes, a negative int is a ValueError, a str (no
\* encoding given) or a float is a TypeError.  Counts are below 256.
ToBytes(x) ==
    CASE x.t = "bytes" -> x
      [] x.t = "str"   -> Fault("TypeError")
      [] x.t = "float" -> Fault("TypeError")
      [] x.t = "bool"  -> PyBytes(Zeros(IF x.v THEN 1 ELSE 0))
      [] x.t = "int"   ->
            CASE x.neg           -> Fault("ValueError")
              [] x.mag = <<>>     -> PyBytes(<<>>)
              [] Len(x.mag) = 1   -> PyBytes(Zeros(x.mag[1]))

\* s.encode("utf8"), for code points below 0x800.
RECURSIVE Utf8Encode(_)
Utf8Encode(s) ==
    IF s = <<>> THEN <<>>
    ELSE LET c == Head(s)
         IN  (IF c < 128 THEN <<c>> ELSE <<192 + (c \div 64), 128 + (c % 64)>>)
             \o Utf8Encode(Tail(s))

\* b.decode("utf8"): the code points, or <<-1>> where the bytes are not
\* UTF-8.  One- and two-byte forms (lead bytes below 0xE0).
RECURSIVE Utf8Decode(_)
Utf8Decode(b) ==
    IF b = <<>> THEN <<>>
    ELSE LET c == Head(b)
         IN  IF c < 128
             THEN LET r == Utf8Decode(Tail(b))
                  IN  IF r = <<-1>> THEN r ELSE <<c>> \o r
             ELSE IF c >= 194 /\ c < 224 /\ Len(b) >= 2 /\ b[2] >= 128 /\ b[2] < 192
             THEN LET r == Utf8Decode(SubSeq(b, 3, Len(b)))
                  IN  IF r = <<-1>> THEN r
                      ELSE <<(c - 192) * 64 + (b[2] - 128)>> \o r
             ELSE <<-1>>

str2bytes(s) ==
    CASE s.t = "bytes" -> s
      [] s.t = "str"   -> PyBytes(Utf8Encode(s.s))
      [] OTHER         -> Fault("AttributeError")

bytes2str(b) ==
    LET r == Utf8Decode(b.b)
    IN  IF r = <<-1>> THEN Fault("UnicodeDecodeError") ELSE PyStr(r)

\* The conversion functions the format table names.
Convert(fn, x) ==
    CASE fn = "bool"      -> ToBool(x)
      [] fn = "int"       -> ToInt(x)
      [] fn = "float"     -> ToFloat(x)
      [] fn = "str2bytes" -> str2bytes(x)
      [] fn = "bytes2str" -> bytes2str(x)
      [] fn = "bytes"     -> ToBytes(x)

\* ------------------------------------------------------------------------
\* struct: the layouts of the format table, all little-endian ("<").
\* ------------------------------------------------------------------------

\* struct.calcsize(fmt)
StructSize(fmt) ==
    CASE fmt \in {"<?", "<B", "<b"} -> 1
      [] fmt \in {"<H", "<h"}       -> 2
      [] fmt \in {"<I", "<i", "<f"} -> 4
      [] fmt \in {"<Q", "<q", "<d"} -> 8

StructSigned(fmt) == fmt \in {"<b", "<h", "<i", "<q"}

StructFloat(fmt) == fmt \in {"<f", "<d"}

\* 0 <= x < 256^w
FitsUnsigned(x, w) == ~x.neg /\ Len(x.mag) <= w

\* -256^w / 2 <= x < 256^w / 2
FitsSigned(x, w) ==
    \/ Len(x.mag) < w
    \/ /\ Len(x.mag) = w
       /\ \/ x.mag[w] < 128
          \/ x.neg /\ x.mag[w] = 128 /\ \A i \in 1..(w - 1) : x.mag[i] = 0

\* 256^Len(b) - b, digit by digit: the complement of each digit plus the
\* carry c (1 at the lowest digit).
RECURSIVE TwosComplement(_, _)
TwosComplement(b, c) ==
    IF b = <<>> THEN <<>>
    ELSE LET x == (255 - Head(b)) + c
         IN  <<x % 256>> \o TwosComplement(Tail(b), x \div 256)

\* The IEEE 754 single and double encodings of the floats of the model.
FloatTable ==
    { [val |-> PyFloat(FALSE, <<>>, 0),   f |-> <<0, 0, 0, 0>>,
       d |-> <<0, 0, 0, 0, 0, 0, 0, 0>>],
      [val |-> PyFloat(FALSE, <<1>>, 0),  f |-> <<0, 0, 128, 63>>,
       d |-> <<0, 0, 0, 0, 0, 0, 240, 63>>],
      [val |-> PyFloat(TRUE, <<2>>, 0),   f |-> <<0, 0, 0, 192>>,
       d |-> <<0, 0, 0, 0, 0, 0, 0, 192>>],
      [val |-> PyFloat(FALSE, <<5>>, -1), f |-> <<0, 0, 0, 63>>,
       d |-> <<0, 0, 0, 0, 0, 0, 224, 63>>],
      [val |-> PyFloat(FALSE, <<3>>, 2),  f |-> <<0, 0, 150, 67>>,
       d |-> <<0, 0, 0, 0, 0, 192, 114, 64>> ] }

FloatVals == { e.val : e \in FloatTable }

FloatBytes(fmt) == { (IF fmt = "<f" THEN e.f ELSE e.d) : e \in FloatTable }

\* struct.pack(fmt, x), one value: the bytes, or struct.error when x is not
\* of the layout's type or lies outside its range.
StructPack(fmt, x) ==
    IF fmt = "<?" THEN PyBytes(<<IF ToBool(x).v THEN 1 ELSE 0>>)
    ELSE IF StructFloat(fmt)
    THEN IF x.t \notin {"float", "int", "bool"} THEN Fault("struct.error")
         ELSE LET e == CHOOSE e \in FloatTable : e.val = ToFloat(x)
              IN  PyBytes(IF fmt = "<f" THEN e.f ELSE e.d)
    ELSE IF x.t \notin {"int", "bool"} THEN Fault("struct.error")
    ELSE LET n == ToInt(x)
             w == StructSize(fmt)
             p == n.mag \o Zeros(w - Len(n.mag))
         IN  IF StructSigned(fmt)
             THEN IF ~FitsSigned(n, w) THEN Fault("struct.error")
                  ELSE PyBytes(IF n.neg THEN TwosComplement(p, 1) ELSE p)
             ELSE IF ~FitsUnsigned(n, w) THEN Fault("struct.error")
                  ELSE PyBytes(p)

\* struct.unpack(fmt, b), one value: struct.error unless b has the
\* layout's size.
StructUnpack(fmt, b) ==
    IF Len(b) # StructSize(fmt) THEN Fault("struct.error")
    ELSE IF fmt = "<?" THEN PyBool(b[1] # 0)
    ELSE IF StructFloat(fmt)
    THEN (CHOOSE e \in FloatTable : (IF fmt = "<f" THEN e.f ELSE e.d) = b).val
    ELSE IF StructSigned(fmt) /\ b[Len(b)] >= 128
    THEN PyInt(TRUE, TwosComplement(b, 1))
    ELSE PyInt(FALSE, b)

\* ------------------------------------------------------------------------
\* The format table and the marshaller classes.
\* ------------------------------------------------------------------------

\* Table_2904_bytes_format as the module sets it: code -> (frompython,
\* topython, length, format).  A length of None is 0 here (both are false
\* in "if not self.length") and a format of None "".
Registry ==
    (1 :> <<"bool", "bool", 1, "<?">>) @@
    (2 :> <<"int", "int", 1, "<B">>) @@
    (3 :> <<"int", "int", 1, "<B">>) @@
    (4 :> <<"int", "int", 1, "<B">>) @@
    (5 :> <<"int", "int", 2, "<H">>) @@
    (6 :> <<"int", "int", 2, "<H">>) @@
    (8 :> <<"int", "int", 4, "<I">>) @@
    (10 :> <<"int", "int", 8, "<Q">>) @@
    (12 :> <<"int", "int", 1, "<b">>) @@
    (13 :> <<"int", "int", 2, "<h">>) @@
    (14 :> <<"int", "int", 2, "<h">>) @@
    (16 :> <<"int", "int", 4, "<i">>) @@
    (18 :> <<"int", "int", 8, "<Q">>) @@
    (20 :> <<"float", "float", 4, "<f">>) @@
    (21 :> <<"float", "float", 8, "<d">>) @@
    (25 :> <<"str2bytes", "bytes2str", 0, "">>) @@
    (27 :> <<"bytes", "bytes", 0, "">>)

\* BleakGATTMarshaller()
BleakGATTMarshaller == [t |-> "object", kind |-> "Passthrough"]

\* BleakGATTPackMarshaller(format, exponent, unit): with an exponent other
\* than 0 the constructor evaluates sys.stderr, and the module does not
\* import sys: NameError.
BleakGATTPackMarshaller_init(format, exponent, unit) ==
    IF exponent # 0 THEN Fault("NameError")
    ELSE [t |-> "object", kind |-> "Pack", frompython |-> format[1],
          topython |-> format[2], length |-> format[3],
          format |-> format[4], exponent |-> exponent, unit |-> unit]

IsFault(x) == x.t = "fault"

\* data / (10 ** n): true division, a float.
DivPow(data, n) ==
    LET f == ToFloat(data) IN PyFloat(f.fneg, f.fmag, f.dexp - n)

\* data * (10 ** n): an int stays an int.
MulPow(data, n) ==
    IF data.t = "float" THEN PyFloat(data.fneg, data.fmag, data.dexp + n)
    ELSE LET i == ToInt(data) IN PyInt(i.neg, MulPow10(i.mag, n))

\* The argument of marshall as its exponent rescales it.
Rescale(self, data) ==
    IF self.exponent > 0 THEN DivPow(data, self.exponent)
    ELSE IF self.exponent < 0 THEN MulPow(data, -self.exponent)
    ELSE data

\* BleakGATTPackMarshaller.marshall
BleakGATTPackMarshaller_marshall(self, data) ==
    IF self.length = 0 THEN Convert(self.frompython, data)
    ELSE LET conv == Convert(self.frompython, Rescale(self, data))
             data_bytes == IF IsFault(conv) THEN conv
                           ELSE StructPack(self.format, conv)
         IN  IF IsFault(conv) THEN conv
             ELSE IF IsFault(data_bytes) THEN data_bytes
             ELSE IF Len(data_bytes.b) # self.length THEN Fault("AssertionError")
             ELSE data_bytes

\* BleakGATTPackMarshaller_unmarshall had it unpacked every integer layout as unsigned.
BleakGATTPackMarshaller_unmarshall_unsigned(self, data_bytes) ==
    IF self.length = 0 THEN Convert(self.topython, data_bytes)
    ELSE IF Len(data_bytes.b) # self.length THEN Fault("AssertionError")
    ELSE IF self.format = "<?" \/ StructFloat(self.format)
    THEN Convert(self.topython, StructUnpack(self.format, data_bytes.b))
    ELSE PyInt(FALSE, data_bytes.b)

\* BleakGATTPackMarshaller_unmarshall without its assertion on the length: struct.unpack is
\* then the first to see the bytes.
BleakGATTPackMarshaller_unmarshall_noassert(self, data_bytes) ==
    IF self.length = 0 THEN Convert(self.topython, data_bytes)
    ELSE LET u == StructUnpack(self.format, data_bytes.b)
         IN  IF IsFault(u) THEN u ELSE Convert(self.topython, u)

\* BleakGATTPackMarshaller.unmarshall
BleakGATTPackMarshaller_unmarshall(self, data_bytes) ==
    IF self.length = 0 THEN Convert(self.topython, data_bytes)
    ELSE IF Len(data_bytes.b) # self.length THEN Fault("AssertionError")
    ELSE LET data == Convert(self.topython, StructUnpack(self.format, data_bytes.b))
         IN  IF self.exponent # 0
             THEN LET f == ToFloat(data)
                  IN  PyFloat(f.fneg, f.fmag, f.dexp + self.exponent)
             ELSE data

\* marshall, by the class of the object.
marshall(self, data) ==
    IF self.kind = "Pack" THEN BleakGATTPackMarshaller_marshall(self, data) ELSE ToBytes(data)

\* unmarshall, by the class of the object.
unmarshall(self, data_bytes) ==
    IF self.kind = "Pack" THEN BleakGATTPackMarshaller_unmarshall(self, data_bytes) ELSE data_bytes

\* ------------------------------------------------------------------------
\* The resolver: BleakGATTMarshaller.get_marshaller.
\* ------------------------------------------------------------------------

CallIds == 1..MaxCalls

\* The uuid argument: "" is the empty (false) uuid.
Uuids == {"", "u1"}

\* The descr_2904 argument: 0 is None, any other value the handle of the
\* characteristic's 0x2904 descriptor.
Handles == {0, 41}

\* The factories an application registers.
Factories == {"vendor"}

\* What a factory of the override table returns when it is called.
CallFactory(f) == [t |-> "object", kind |-> "Override", factory |-> f]

NoValue == [t |-> "none", kind |-> "None"]

\* A coroutine that has not been called.
Idle ==
    [pc |-> "idle", uuid |-> "", descr_2904 |-> 0, data |-> <<>>,
     ret |-> NoValue, reads |-> 0, warned |-> 0]

\* A 0x2904 descriptor value with its unit, namespace and description set.
Record(format, exponent) == <<format, exponent, 39, 1, 0, 1, 0>>

\* struct.unpack("<BbHBH", descr_2904_data)
ParseRecord(d) ==
    IF Len(d) # 7 THEN Fault("struct.error")
    ELSE [t |-> "record", format |-> d[1],
          exponent |-> (IF d[2] >= 128 THEN d[2] - 256 ELSE d[2]),
          unit |-> d[3] + 256 * d[4], namespace |-> d[5],
          description |-> d[6] + 256 * d[7]]

\* Enter had it gone to the descriptor without consulting the override
\* table.
EnterSkipOverride(table, c, uuid, descr_2904) ==
    LET c1 == [c EXCEPT !.uuid = uuid, !.descr_2904 = descr_2904]
    IN  IF descr_2904 # 0
        THEN [c1 EXCEPT !.pc = "read", !.reads = c.reads + 1]
        ELSE [c1 EXCEPT !.pc = "done", !.warned = c.warned + 1,
                        !.ret = BleakGATTMarshaller]

\* get_marshaller from its call to its first suspension or its return:
\* the override table, then the read of the descriptor, else the warning
\* and the base marshaller.
Enter(table, c, uuid, descr_2904) ==
    LET c1 == [c EXCEPT !.uuid = uuid, !.descr_2904 = descr_2904]
    IN  IF uuid # "" /\ uuid \in DOMAIN table
        THEN [c1 EXCEPT !.pc = "done", !.ret = CallFactory(table[uuid])]
        ELSE IF descr_2904 # 0
        THEN [c1 EXCEPT !.pc = "read", !.reads = c.reads + 1]
        ELSE [c1 EXCEPT !.pc = "done", !.warned = c.warned + 1,
                        !.ret = BleakGATTMarshaller]

\* Resume had it indexed the format table without testing membership:
\* KeyError for a format that is not listed.
ResumeKeyError(formats, c, descr_2904_data) ==
    LET r  == ParseRecord(descr_2904_data)
        c1 == [c EXCEPT !.pc = "done", !.data = descr_2904_data]
    IN  IF IsFault(r) THEN [c1 EXCEPT !.ret = r]
        ELSE IF r.format \in DOMAIN formats
        THEN [c1 EXCEPT !.ret = BleakGATTPackMarshaller_init(formats[r.format], r.exponent, r.unit)]
        ELSE [c1 EXCEPT !.ret = Fault("KeyError")]

\* get_marshaller from the return of read_gatt_descriptor to its own.
Resume(formats, c, descr_2904_data) ==
    LET r  == ParseRecord(descr_2904_data)
        c1 == [c EXCEPT !.pc = "done", !.data = descr_2904_data]
    IN  IF IsFault(r) THEN [c1 EXCEPT !.ret = r]
        ELSE IF r.format \in DOMAIN formats
        THEN [c1 EXCEPT !.ret = BleakGATTPackMarshaller_init(formats[r.format], r.exponent, r.unit)]
        ELSE [c1 EXCEPT !.warned = c.warned + 1, !.ret = BleakGATTMarshaller]

\* Abort had the read been wrapped in try/except, falling through to the
\* warning and the base marshaller.
AbortDegrade(c) ==
    [c EXCEPT !.pc = "done", !.warned = c.warned + 1, !.ret = BleakGATTMarshaller]

\* get_marshaller when read_gatt_descriptor raises: nothing catches it.
Abort(c) == [c EXCEPT !.pc = "done", !.ret = Fault("BleakError")]

\* The application fills the override table.
Register(uuid, f) ==
    /\ Table_uuid_to_marshaller' =
          [u \in DOMAIN Table_uuid_to_marshaller \cup {uuid} |->
              IF u = uuid THEN f ELSE Table_uuid_to_marshaller[u]]
    /\ Table_uuid_to_marshaller' # Table_uuid_to_marshaller
    /\ UNCHANGED <<Table_2904_bytes_format, calls, hist>>

\* A caller awaits get_marshaller(client, uuid, descr_2904).
get_marshaller(p, uuid, descr_2904) ==
    /\ calls[p].pc = "idle"
    /\ calls' = [calls EXCEPT
                   ![p] = Enter(Table_uuid_to_marshaller, @, uuid, descr_2904)]
    /\ UNCHANGED <<Table_uuid_to_marshaller, Table_2904_bytes_format, hist>>

\* ReadReturns had it added the marshaller to the override table ("We could
\* add the marshaller to the table here, if we have a uuid").
ReadReturnsCaching(p, descr_2904_data) ==
    /\ calls[p].pc = "read"
    /\ calls' = [calls EXCEPT
                   ![p] = Resume(Table_2904_bytes_format, @, descr_2904_data)]
    /\ Table_uuid_to_marshaller' =
          IF calls[p].uuid # "" /\ calls'[p].ret.kind = "Pack"
          THEN [u \in DOMAIN Table_uuid_to_marshaller \cup {calls[p].uuid} |->
                   IF u = calls[p].uuid THEN "cached"
                   ELSE Table_uuid_to_marshaller[u]]
          ELSE Table_uuid_to_marshaller
    /\ UNCHANGED <<Table_2904_bytes_format, hist>>

\* read_gatt_descriptor returns descr_2904_data.
ReadReturns(p, descr_2904_data) ==
    /\ calls[p].pc = "read"
    /\ calls' = [calls EXCEPT
                   ![p] = Resume(Table_2904_bytes_format, @, descr_2904_data)]
    /\ UNCHANGED <<Table_uuid_to_marshaller, Table_2904_bytes_format, hist>>

\* read_gatt_descriptor raises.
ReadFails(p) ==
    /\ calls[p].pc = "read"
    /\ calls' = [calls EXCEPT ![p] = Abort(@)]
    /\ UNCHANGED <<Table_uuid_to_marshaller, Table_2904_bytes_format, hist>>

\* The descriptor values the peripheral answers with while calls race:
\* a listed and an unlisted format, with and without an exponent, and a
\* value that is not 7 bytes long.
Records ==
    { Record(f, e) : f \in {6, 7}, e \in {0, 2} } \cup { <<6, 0, 39>> }

Init ==
    /\ Table_uuid_to_marshaller = << >>
    /\ Table_2904_bytes_format = Registry
    /\ calls = [p \in CallIds |-> Idle]
    /\ hist = << >>

Next ==
    \/ \E u \in Uuids, f \in Factories : Register(u, f)
    \/ \E p \in CallIds, u \in Uuids, d \in Handles : get_marshaller(p, u, d)
    \/ \E p \in CallIds, data \in Records : ReadReturns(p, data)
    \/ \E p \in CallIds : ReadFails(p)

Spec == Init /\ [][Next]_vars

\* ------------------------------------------------------------------------
\* One call, every descriptor value: all 256 format codes, with exponent
\* bytes at both ends of the signed range.
\* ------------------------------------------------------------------------

ExponentBytes == {0, 1, 2, 127, 128, 255}

WideRecords ==
    { Record(f, e) : f \in 0..255, e \in ExponentBytes } \cup { <<6, 0, 39>> }

NextWide ==
    \/ \E u \in Uuids, f \in Factories : Register(u, f)
    \/ \E u \in Uuids, d \in Handles : get_marshaller(1, u, d)
    \/ \E data \in WideRecords : ReadReturns(1, data)
    \/ ReadFails(1)

SpecWide == Init /\ [][NextWide]_vars

\* ------------------------------------------------------------------------
\* The codecs: what read_gatt_char_typed and write_gatt_char_typed do with
\* the marshaller a call returned (marshaller.unmarshall(data_bytes),
\* marshaller.marshall(data)).
\* ------------------------------------------------------------------------

EdgeBytes == {0, 1, 2, 127, 128, 251, 255}

MidBytes == {0, 255}

\* Byte strings of n bytes: every byte for n = 1, else the low and the high
\* byte from EdgeBytes around a run of one byte of MidBytes.
ByteStrings(n) ==
    IF n = 1 THEN { <<b>> : b \in 0..255 }
    ELSE { [i \in 1..n |-> IF i = 1 THEN lo ELSE IF i = n THEN hi ELSE mid] :
             lo \in EdgeBytes, hi \in EdgeBytes, mid \in MidBytes }

BytesInputs ==
    UNION { ByteStrings(n) : n \in 0..MaxLen }
       \cup FloatBytes("<f") \cup FloatBytes("<d")
       \cup { <<44, 1>>, <<210, 4, 0, 0>>, <<104, 101, 108, 108, 111>>,
              <<195, 169>> }

\* Ints of every sign and magnitude up to MaxLen digits.
IntInputs == { PyInt(neg, b) : neg \in BOOLEAN, b \in BytesInputs }

StrInputs == { PyStr(s) : s \in { << >>, <<104, 101, 108, 108, 111>>, <<233>> } }

AllValues ==
    IntInputs \cup { PyBool(v) : v \in BOOLEAN } \cup FloatVals \cup StrInputs
       \cup { PyBytes(b) : b \in BytesInputs }

IsCodec(m) == m.kind \in {"Pack", "Passthrough"}

\* The arguments of marshall the model covers: numbers for the numeric
\* layouts (floats: those of FloatTable) and wherever an exponent scales
\* the argument, zero-byte counts below 256.
MarshallDomain(m, v) ==
    LET fn == IF m.kind = "Pack" THEN m.frompython ELSE "bytes"
    IN  CASE IsFault(v)   -> FALSE
          [] fn = "int"   -> v.t \in {"int", "bool", "float"}
          [] fn = "bool"  -> m.exponent = 0 \/ v.t \in {"int", "bool", "float"}
          [] fn = "float" -> v.t \in {"int", "bool", "float"}
                                /\ ToFloat(Rescale(m, v)) \in FloatVals
          [] fn = "bytes" -> v.t = "int" => (v.neg \/ Len(v.mag) <= 1)
          [] OTHER        -> TRUE

\* The arguments of unmarshall the model covers: byte strings (floats:
\* the encodings of FloatTable, or a string of another length).
UnmarshallDomain(m, b) ==
    /\ b.t = "bytes"
    /\ (m.kind = "Pack" /\ m.length # 0 /\ StructFloat(m.format)
           /\ Len(b.b) = m.length)
          => b.b \in FloatBytes(m.format)

\* The value an operation is applied to: an input for the first, the
\* result of the one before for the next.
Args(h) == IF h = << >> THEN AllValues ELSE { h[Len(h)].res }

\* marshaller.marshall(data)
CallMarshall(p, data) ==
    /\ Len(hist) < MaxOps
    /\ calls[p].pc = "done"
    /\ IsCodec(calls[p].ret)
    /\ MarshallDomain(calls[p].ret, data)
    /\ hist' = Append(hist, [op |-> "marshall", arg |-> data,
                             res |-> marshall(calls[p].ret, data)])
    /\ UNCHANGED <<Table_uuid_to_marshaller, Table_2904_bytes_format, calls>>

\* marshaller.unmarshall(data_bytes)
CallUnmarshall(p, data_bytes) ==
    /\ Len(hist) < MaxOps
    /\ calls[p].pc = "done"
    /\ IsCodec(calls[p].ret)
    /\ UnmarshallDomain(calls[p].ret, data_bytes)
    /\ hist' = Append(hist, [op |-> "unmarshall", arg |-> data_bytes,
                             res |-> unmarshall(calls[p].ret, data_bytes)])
    /\ UNCHANGED <<Table_uuid_to_marshaller, Table_2904_bytes_format, calls>>

\* The descriptor values behind the codecs: every listed format and one
\* unlisted, without an exponent, with a positive and with a negative one.
CodecRecords ==
    { Record(f, e) : f \in DOMAIN Registry \cup {7}, e \in {0, 2, 255} }

NextCodec ==
    \/ \E d \in Handles : get_marshaller(1, "u1", d)
    \/ \E data \in CodecRecords : ReadReturns(1, data)
    \/ ReadFails(1)
    \/ \E data \in Args(hist) : CallMarshall(1, data)
    \/ \E data_bytes \in Args(hist) : CallUnmarshall(1, data_bytes)

SpecCodec == Init /\ [][NextCodec]_vars

\* ------------------------------------------------------------------------
\* The claims.
\* ------------------------------------------------------------------------

Done(p) == calls[p].pc = "done"

\* The call read a descriptor value of 7 bytes.
ReadRecord(p) == Done(p) /\ Len(calls[p].data) = 7

FormatOf(p) == ParseRecord(calls[p].data).format

ExponentOf(p) == ParseRecord(calls[p].data).exponent

\* No entry of the override table applies to the call's uuid.
NoOverride(p) ==
    calls[p].uuid = "" \/ calls[p].uuid \notin DOMAIN Table_uuid_to_marshaller

UnsignedCodes == {2, 3, 4, 5, 6, 8, 10}

SignedCodes == {12, 13, 14, 16, 18}

\* C1: a call whose uuid is not empty and is a key of the override table
\* returns what the registered factory returns and issues no descriptor
\* read, with or without a descriptor handle; a call that returned an
\* override never reads afterwards.
C1_OverrideShortCircuit ==
    [][\A p \in CallIds, u \in Uuids, d \in Handles :
          /\ (get_marshaller(p, u, d) /\ u # "" /\ u \in DOMAIN Table_uuid_to_marshaller)
                => /\ calls'[p].pc = "done"
                   /\ calls'[p].ret = CallFactory(Table_uuid_to_marshaller[u])
                   /\ calls'[p].reads = 0
          /\ (Done(p) /\ calls[p].ret.kind = "Override")
                => calls'[p] = calls[p]]_vars

\* C1 witness: a call with a descriptor handle returned the override.
C1_Witness ==
    \E p \in CallIds :
        /\ Done(p) /\ calls[p].ret.kind = "Override"
        /\ calls[p].descr_2904 # 0 /\ calls[p].reads = 0

\* C2: with no override, a descriptor handle and a 7-byte descriptor value
\* whose format is listed, the call returns a pack marshaller carrying the
\* listed entry and the value's exponent, whatever the exponent.
C2_RegistryHitYieldsPack ==
    \A p \in CallIds :
        (ReadRecord(p) /\ NoOverride(p) /\ FormatOf(p) \in DOMAIN Registry)
           => /\ calls[p].ret.kind = "Pack"
              /\ <<calls[p].ret.frompython, calls[p].ret.topython,
                    calls[p].ret.length, calls[p].ret.format>>
                    = Registry[FormatOf(p)]
              /\ calls[p].ret.exponent = ExponentOf(p)

\* C3: with no override, a call whose descriptor value names a format that
\* is not listed, or which has no descriptor handle, does not raise: it
\* warns once and returns the base marshaller, whose unmarshall returns
\* its input.
C3_DegradeToPassthrough ==
    \A p \in CallIds :
        (/\ Done(p) /\ NoOverride(p)
         /\ \/ ReadRecord(p) /\ FormatOf(p) \notin DOMAIN Registry
            \/ calls[p].descr_2904 = 0)
           => /\ calls[p].ret = BleakGATTMarshaller
              /\ calls[p].warned = 1
              /\ \A b \in ByteStrings(0) \cup ByteStrings(1) \cup ByteStrings(3) :
                    unmarshall(calls[p].ret, PyBytes(b)) = PyBytes(b)

\* C3 witness: a call read a descriptor value with the unlisted format 7
\* and returned the base marshaller.
C3_Witness ==
    \E p \in CallIds :
        /\ ReadRecord(p) /\ NoOverride(p) /\ FormatOf(p) = 7
        /\ calls[p].ret = BleakGATTMarshaller /\ calls[p].warned = 1

\* The values the claims call representable for a format code.
Representable(code, v) ==
    CASE code = 1              -> v.t = "bool"
      [] code \in UnsignedCodes -> v.t = "int" /\ FitsUnsigned(v, Registry[code][3])
      [] code \in SignedCodes   -> v.t = "int" /\ FitsSigned(v, Registry[code][3])
      [] OTHER                  -> FALSE

\* The call returned the pack marshaller of a boolean or integer format.
IntCodec(p) ==
    /\ ReadRecord(p) /\ calls[p].ret.kind = "Pack"
    /\ FormatOf(p) \in {1} \cup UnsignedCodes \cup SignedCodes

\* C4: at exponent 0, for every boolean and integer format and every
\* representable value v, marshall(v) does not fail and
\* unmarshall(marshall(v)) = v.
C4_RoundTripValue ==
    (IntCodec(1) /\ Len(hist) >= 1 /\ hist[1].op = "marshall"
        /\ Representable(FormatOf(1), hist[1].arg))
       => /\ ~IsFault(hist[1].res)
          /\ (Len(hist) >= 2 /\ hist[2].op = "unmarshall")
                => hist[2].res = hist[1].arg

\* C5 as stated: at exponent 0, for every boolean and integer format and
\* every byte string b of the format's length, marshall(unmarshall(b)) = b.
C5_RoundTripBytes ==
    (IntCodec(1) /\ Len(hist) >= 2 /\ hist[1].op = "unmarshall"
        /\ Len(hist[1].arg.b) = calls[1].ret.length /\ hist[2].op = "marshall")
       => hist[2].res = hist[1].arg

\* C5 amended: marshall(unmarshall(b)) = b for every integer format and
\* every b of its length, and for the boolean format when b is 0x00 or
\* 0x01; any other byte of the boolean format comes back as 0x01.
C5_RoundTripBytesAmended ==
    (IntCodec(1) /\ Len(hist) >= 1 /\ hist[1].op = "unmarshall"
        /\ Len(hist[1].arg.b) = calls[1].ret.length)
       => /\ ~IsFault(hist[1].res)
          /\ (Len(hist) >= 2 /\ hist[2].op = "marshall")
                => hist[2].res =
                      IF FormatOf(1) = 1 /\ hist[1].arg.b[1] >= 2
                      THEN PyBytes(<<1>>) ELSE hist[1].arg

\* C5 witness: a signed format took a byte string with the top bit set
\* through unmarshall and marshall.
C5_Witness ==
    /\ IntCodec(1) /\ FormatOf(1) = 16 /\ Len(hist) = 2
    /\ hist[1].op = "unmarshall" /\ hist[1].arg = PyBytes(<<251, 255, 255, 255>>)
    /\ hist[2].op = "marshall" /\ hist[2].res = hist[1].arg

\* value * 10^e as a number.
Scaled(v, e) == LET f == ToFloat(v) IN PyFloat(f.fneg, f.fmag, f.dexp + e)

\* C6: for an integer format and any descriptor exponent e there is a pack
\* marshaller; its unmarshall returns the stored integer times 10^e (the
\* stored integer itself when e = 0) and its marshall takes that value back
\* to the same bytes; and for e > 0, unmarshall(marshall(v)) of an integer
\* v is v cut down to a multiple of 10^e: less than 10^e away from v, and v
\* when v is a multiple of 10^e.
C6_ExponentScaling ==
    (ReadRecord(1) /\ NoOverride(1)
        /\ FormatOf(1) \in UnsignedCodes \cup SignedCodes)
       => LET e == ExponentOf(1)
              m == calls[1].ret
          IN  /\ m.kind = "Pack"
              /\ (Len(hist) >= 1 /\ hist[1].op = "unmarshall"
                     /\ Len(hist[1].arg.b) = m.length)
                    => /\ hist[1].res =
                            (IF e = 0 THEN StructUnpack(m.format, hist[1].arg.b)
                             ELSE Scaled(StructUnpack(m.format, hist[1].arg.b), e))
                       /\ (Len(hist) >= 2 /\ hist[2].op = "marshall")
                             => hist[2].res = hist[1].arg
              /\ (e > 0 /\ Len(hist) >= 2 /\ hist[1].op = "marshall"
                     /\ hist[1].arg.t = "int" /\ hist[2].op = "unmarshall")
                    => hist[2].res = Scaled(ToInt(DivPow(hist[1].arg, e)), e)

\* C7 as stated: the base marshaller's unmarshall returns its input, and
\* its marshall never fails and returns a byte string as it is.
C7_PassthroughTotal ==
    (Done(1) /\ calls[1].ret.kind = "Passthrough" /\ Len(hist) >= 1)
       => /\ hist[1].op = "unmarshall" => hist[1].res = hist[1].arg
          /\ hist[1].op = "marshall"
                => /\ ~IsFault(hist[1].res)
                   /\ hist[1].arg.t = "bytes" => hist[1].res = hist[1].arg

\* C7 amended: the base marshaller's unmarshall returns its input; its
\* marshall returns a byte string as it is, raises TypeError for a str or
\* a float and ValueError for a negative int, and turns an int n >= 0 (a
\* bool is 0 or 1) into n zero bytes.
C7_PassthroughAmended ==
    (Done(1) /\ calls[1].ret.kind = "Passthrough" /\ Len(hist) >= 1)
       => LET a == hist[1].arg
              r == hist[1].res
          IN  /\ hist[1].op = "unmarshall" => r = a
              /\ hist[1].op = "marshall"
                    => CASE a.t = "bytes" -> r = a
                         [] a.t \in {"str", "float"} -> r = Fault("TypeError")
                         [] a.t = "bool" -> r = PyBytes(IF a.v THEN <<0>> ELSE <<>>)
                         [] a.t = "int" ->
                               IF a.neg THEN r = Fault("ValueError")
                               ELSE /\ r.t = "bytes"
                                    /\ PyInt(FALSE, <<Len(r.b)>>) = a
                                    /\ \A i \in 1..Len(r.b) : r.b[i] = 0

\* C7 witness: the base marshaller was given the str "hello" to marshall.
C7_Witness ==
    /\ Done(1) /\ calls[1].ret.kind = "Passthrough" /\ Len(hist) >= 1
    /\ hist[1].op = "marshall"
    /\ hist[1].arg = PyStr(<<104, 101, 108, 108, 111>>)

\* The call returned a pack marshaller of a fixed length.
FixedCodec(p) ==
    Done(p) /\ calls[p].ret.kind = "Pack" /\ calls[p].ret.length # 0

\* C8: a pack marshaller of a fixed length raises AssertionError from
\* unmarshall of a byte string of any other length (shorter, longer,
\* empty) and every marshall that succeeds returns exactly that many
\* bytes.
C8_LengthMismatchFaults ==
    FixedCodec(1)
       => \A i \in 1..Len(hist) :
             /\ (hist[i].op = "unmarshall"
                    /\ Len(hist[i].arg.b) # calls[1].ret.length)
                   => hist[i].res = Fault("AssertionError")
             /\ (hist[i].op = "marshall" /\ ~IsFault(hist[i].res))
                   => /\ hist[i].res.t = "bytes"
                      /\ Len(hist[i].res.b) = calls[1].ret.length

\* C8 witness: a 4-byte format was given 5 bytes to unmarshall.
C8_Witness ==
    /\ FixedCodec(1) /\ calls[1].ret.length = 4 /\ Len(hist) >= 1
    /\ hist[1].op = "unmarshall" /\ Len(hist[1].arg.b) = 5
    /\ hist[1].res = Fault("AssertionError")

\* C9: when the descriptor read of a call fails, the call ends with that
\* error: no marshaller, no warning, one read and no second attempt.
C9_TransportFailurePropagates ==
    [][\A p \in CallIds :
          /\ ReadFails(p)
                => /\ calls'[p].pc = "done"
                   /\ calls'[p].ret = Fault("BleakError")
                   /\ calls'[p].warned = 0
                   /\ calls'[p].reads = 1
          /\ (Done(p) /\ IsFault(calls[p].ret)) => calls'[p] = calls[p]]_vars

\* C9 witness: a call with a descriptor handle ended with the error of
\* the read.
C9_Witness ==
    \E p \in CallIds :
        /\ Done(p) /\ calls[p].ret = Fault("BleakError")
        /\ calls[p].descr_2904 # 0 /\ NoOverride(p)

\* The call went past the override table and had a descriptor handle.
Reads(p) ==
    /\ calls[p].pc \in {"read", "done"}
    /\ calls[p].ret.kind # "Override"
    /\ calls[p].descr_2904 # 0

\* C10: no step of a call changes either table; every call without an
\* override and with a descriptor handle issues its own single read, any
\* other call none; and two calls for the same attribute that read the
\* same descriptor value end alike (the same format and exponent).
C10_NoMutationNoCaching ==
    /\ [](Table_2904_bytes_format = Registry)
    /\ [][calls' # calls =>
             /\ Table_uuid_to_marshaller' = Table_uuid_to_marshaller
             /\ Table_2904_bytes_format' = Table_2904_bytes_format]_vars
    /\ [](\A p \in CallIds : calls[p].reads = (IF Reads(p) THEN 1 ELSE 0))
    /\ [](\A p, q \in CallIds :
             (/\ ReadRecord(p) /\ ReadRecord(q)
              /\ calls[p].uuid = calls[q].uuid
              /\ calls[p].descr_2904 = calls[q].descr_2904
              /\ calls[p].data = calls[q].data)
                => calls[p].ret = calls[q].ret)

\* C10 witness: two calls for the same attribute each read the descriptor
\* and each returned a pack marshaller.
C10_Witness ==
    \E p, q \in CallIds :
        /\ p # q /\ ReadRecord(p) /\ ReadRecord(q)
        /\ calls[p].uuid = calls[q].uuid /\ calls[p].reads = 1 /\ calls[q].reads = 1
        /\ calls[p].ret.kind = "Pack" /\ calls[q].ret = calls[p].ret

====
